---- MODULE Spec2Model ----
(***************************************************************************)
(* bananadeck backend: outline parsing, version allocation, idempotent     *)
(* caching of the text stages, slide rendering and slide expansion.        *)
(*                                                                         *)
(* Text is modelled as TLA+ strings, character by character: the parser    *)
(* and the serializer work on the characters exactly as the Python code    *)
(* does (regular expression, split, strip, startswith, replace).           *)
(***************************************************************************)
EXTENDS Integers, Sequences, FiniteSets, TLC

(***************************************************************************)
(* Python string primitives                                                *)
(***************************************************************************)

\* s[i] as a one-character string ("" when i is out of range)
CharAt(s, i) == IF i >= 1 /\ i <= Len(s) THEN SubSeq(s, i, i) ELSE ""

\* s[i-1:] of Python: the suffix starting at the 1-based position i
From(s, i) == SubSeq(s, i, Len(s))

\* s.startswith(p, i-1): the literal p occurs in s at the 1-based position i
StartsAt(s, i, p) ==
    /\ i >= 1
    /\ i + Len(p) - 1 <= Len(s)
    /\ SubSeq(s, i, i + Len(p) - 1) = p

\* s.startswith(p)
StartsWith(s, p) == StartsAt(s, 1, p)

\* the characters str.strip() removes
Whitespace == {" ", "\t", "\n", "\r"}

RECURSIVE LStrip(_)
LStrip(s) ==
    IF Len(s) > 0 /\ CharAt(s, 1) \in Whitespace THEN LStrip(From(s, 2)) ELSE s

RECURSIVE RStrip(_)
RStrip(s) ==
    IF Len(s) > 0 /\ CharAt(s, Len(s)) \in Whitespace
    THEN RStrip(SubSeq(s, 1, Len(s) - 1))
    ELSE s

\* s.strip()
Strip(s) == RStrip(LStrip(s))

\* the 1-based position of the first "\n" at or after i, or Len(s) + 1
RECURSIVE LineEnd(_, _)
LineEnd(s, i) ==
    IF i > Len(s) \/ CharAt(s, i) = "\n" THEN i ELSE LineEnd(s, i + 1)

\* s.split("\n")
RECURSIVE SplitLines(_)
SplitLines(s) ==
    LET e == LineEnd(s, 1)
    IN  IF e > Len(s)
        THEN <<s>>
        ELSE <<SubSeq(s, 1, e - 1)>> \o SplitLines(From(s, e + 1))

\* s.replace(p, ""): every non-overlapping occurrence of p removed, left to right
RECURSIVE RemoveAll(_, _)
RemoveAll(s, p) ==
    IF Len(s) = 0 THEN ""
    ELSE IF StartsAt(s, 1, p) THEN RemoveAll(From(s, Len(p) + 1), p)
    ELSE CharAt(s, 1) \o RemoveAll(From(s, 2), p)

\* "\n".join(parts)
RECURSIVE JoinLines(_)
JoinLines(parts) ==
    IF Len(parts) = 0 THEN ""
    ELSE IF Len(parts) = 1 THEN parts[1]
    ELSE parts[1] \o "\n" \o JoinLines(Tail(parts))

DigitChars == <<"0", "1", "2", "3", "4", "5", "6", "7", "8", "9">>

IsDigit(c) == \E d \in 1..10 : DigitChars[d] = c

\* f"{n}" for a natural number n
RECURSIVE IntToStr(_)
IntToStr(n) ==
    IF n < 10 THEN DigitChars[n + 1]
    ELSE IntToStr(n \div 10) \o DigitChars[(n % 10) + 1]

(***************************************************************************)
(* Outline parser (PresentationSlideGenerator.parse_presentation_skeleton) *)
(***************************************************************************)

\* an absent visual_suggestion (Python None) is <<>>, a present one is <<text>>
None == <<>>
Some(t) == <<t>>

HintMarker == "- **Visual suggestion:**"

\* the position after the run of digits that starts at i (i itself if none)
RECURSIVE DigitsEnd(_, _)
DigitsEnd(s, i) ==
    IF i <= Len(s) /\ IsDigit(CharAt(s, i)) THEN DigitsEnd(s, i + 1) ELSE i

\* the lookahead (?=## |$) holds at position i: "## " follows, or it is the end
\* of the text, or only the final newline of the text follows
LookaheadAt(s, i) ==
    \/ StartsAt(s, i, "## ")
    \/ i = Len(s) + 1
    \/ (i = Len(s) /\ CharAt(s, i) = "\n")

\* (.+?) with DOTALL: the least end position j >= i with the lookahead at j + 1
RECURSIVE LazyEnd(_, _)
LazyEnd(s, j) == IF LookaheadAt(s, j + 1) THEN j ELSE LazyEnd(s, j + 1)

\* a match of r"## (Slide \d+): (.+?)(?=## |$)" starting at position i:
\* <<>> when there is none, else <<label, content, position after the match>>
MatchAt(s, i) ==
    IF ~StartsAt(s, i, "## Slide ") THEN <<>>
    ELSE LET d == i + 9
             e == DigitsEnd(s, d)
         IN  IF e = d \/ ~StartsAt(s, e, ": ") \/ e + 2 > Len(s) THEN <<>>
             ELSE LET j == LazyEnd(s, e + 2)
                  IN  <<SubSeq(s, i + 3, e - 1), SubSeq(s, e + 2, j), j + 1>>

\* re.findall(slide_pattern, text, re.DOTALL): the non-overlapping matches,
\* scanning from position i
RECURSIVE FindAll(_, _)
FindAll(s, i) ==
    IF i > Len(s) THEN <<>>
    ELSE LET m == MatchAt(s, i)
         IN  IF m = <<>> THEN FindAll(s, i + 1)
             ELSE <<<<m[1], m[2]>>>> \o FindAll(s, m[3])

\* the loop over content.split("\n"): bullets in order
RECURSIVE BulletsOf(_)
BulletsOf(lines) ==
    IF Len(lines) = 0 THEN <<>>
    ELSE LET line == Strip(lines[1])
         IN  IF StartsWith(line, "-") /\ ~StartsWith(line, HintMarker)
             THEN <<Strip(From(line, 2))>> \o BulletsOf(Tail(lines))
             ELSE BulletsOf(Tail(lines))

\* HintOf that keeps the first recognized hint line
RECURSIVE HintOf_First(_, _)
HintOf_First(lines, acc) ==
    IF Len(lines) = 0 THEN acc
    ELSE LET line == Strip(lines[1])
         IN  IF StartsWith(line, HintMarker) /\ acc = None
             THEN HintOf_First(Tail(lines), Some(Strip(RemoveAll(line, HintMarker))))
             ELSE HintOf_First(Tail(lines), acc)

\* HintOf with a loose test of the marker: the emphasis marks are not required
RECURSIVE HintOf_Loose(_, _)
HintOf_Loose(lines, acc) ==
    IF Len(lines) = 0 THEN acc
    ELSE LET line == Strip(lines[1])
         IN  IF StartsWith(line, HintMarker) \/ StartsWith(line, "- Visual suggestion:")
             THEN HintOf_Loose(Tail(lines), Some(Strip(RemoveAll(line, HintMarker))))
             ELSE HintOf_Loose(Tail(lines), acc)

\* the loop over content.split("\n"): the last recognized hint line wins
RECURSIVE HintOf(_, _)
HintOf(lines, acc) ==
    IF Len(lines) = 0 THEN acc
    ELSE LET line == Strip(lines[1])
         IN  IF StartsWith(line, HintMarker)
             THEN HintOf(Tail(lines), Some(Strip(RemoveAll(line, HintMarker))))
             ELSE HintOf(Tail(lines), acc)

\* one slide record from one match; i is its 1-based position
SlideOf(content, i) ==
    LET lines == SplitLines(content)
    IN  [slide_number |-> i,
         title |-> Strip(lines[1]),
         bullet_points |-> BulletsOf(lines),
         visual_suggestion |-> HintOf(lines, None)]

\* parse_presentation_skeleton that makes one slide of a text without a match
parse_presentation_skeleton_WholeText(markdown_content) ==
    LET matches == FindAll(markdown_content, 1)
    IN  IF Len(matches) = 0 THEN <<SlideOf(markdown_content, 1)>>
        ELSE [i \in 1..Len(matches) |-> SlideOf(matches[i][2], i)]

parse_presentation_skeleton(markdown_content) ==
    LET matches == FindAll(markdown_content, 1)
    IN  [i \in 1..Len(matches) |-> SlideOf(matches[i][2], i)]

\* the labels "Slide <digits>" the markers of a text carry, in order
MarkerLabels(markdown_content) ==
    LET matches == FindAll(markdown_content, 1)
    IN  [i \in 1..Len(matches) |-> matches[i][1]]

(***************************************************************************)
(* Serializer and splice (SlideExpander)                                   *)
(***************************************************************************)

\* the replacement batch size: "Ensure we have exactly 3 slides"
BatchSize == 3

\* what the slides after the target are renumbered by: "net +2"
RenumberDelta == 2

\* the "- <point>" lines of one slide
BulletLines(points) == [i \in 1..Len(points) |-> "- " \o points[i]]

\* slide.get("visual_suggestion") is truthy: neither None nor the empty string
HasHint(slide) ==
    slide.visual_suggestion # None /\ slide.visual_suggestion[1] # ""

\* the markdown_parts one slide contributes
SlideParts(slide) ==
    <<"## Slide " \o IntToStr(slide.slide_number) \o ": " \o slide.title>>
    \o BulletLines(slide.bullet_points)
    \o (IF HasHint(slide)
        THEN <<HintMarker \o " " \o slide.visual_suggestion[1]>>
        ELSE <<>>)
    \o <<"">>

RECURSIVE AllSlideParts(_)
AllSlideParts(slides) ==
    IF Len(slides) = 0 THEN <<>>
    ELSE SlideParts(slides[1]) \o AllSlideParts(Tail(slides))

_slides_to_markdown(slides) ==
    JoinLines(<<"# Expanded Presentation\n">> \o AllSlideParts(slides))

\* slide.copy() with the title suffixed " (Part <part>)"
PartCopy(slide, part) ==
    [slide EXCEPT !.title = slide.title \o " (Part " \o IntToStr(part) \o ")"]

\* PadBatch with the loop bound off by one: the batch is padded to one
\* entry less
RECURSIVE PadBatch_Short(_, _)
PadBatch_Short(expanded_slides, slide) ==
    IF Len(expanded_slides) < BatchSize - 1
    THEN PadBatch_Short(Append(expanded_slides,
                               PartCopy(slide, Len(expanded_slides) + 1)), slide)
    ELSE expanded_slides

\* the while loop that pads the parsed batch with copies of the target
RECURSIVE PadBatch(_, _)
PadBatch(expanded_slides, slide) ==
    IF Len(expanded_slides) < BatchSize
    THEN PadBatch(Append(expanded_slides,
                         PartCopy(slide, Len(expanded_slides) + 1)), slide)
    ELSE expanded_slides

\* FallbackSlides without the " (Part i)" suffix: three plain copies
FallbackSlides_Untitled(slide) == [i \in 1..BatchSize |-> slide]

\* the except branch: three variations of the original slide
FallbackSlides(slide) == [i \in 1..BatchSize |-> PartCopy(slide, i)]

\* a response of the generation service: it raised, or it returned a text
Raised == [raised |-> TRUE]
Returned(t) == [raised |-> FALSE, text |-> t]

\* expand_slide_content that keeps the last three entries of a longer batch
expand_slide_content_TakeLast(slide, response) ==
    IF response.raised THEN [i \in 1..BatchSize |-> PartCopy(slide, i)]
    ELSE LET expanded_slides == parse_presentation_skeleton(response.text)
         IN  IF Len(expanded_slides) > BatchSize
             THEN SubSeq(expanded_slides, Len(expanded_slides) - BatchSize + 1,
                         Len(expanded_slides))
             ELSE IF Len(expanded_slides) < BatchSize
             THEN [i \in 1..BatchSize |->
                     IF i <= Len(expanded_slides) THEN expanded_slides[i]
                     ELSE PartCopy(slide, i)]
             ELSE expanded_slides

\* expand_slide_content after the prompt is built: response is the outcome of
\* the generate_content call
expand_slide_content(slide, response) ==
    IF response.raised THEN FallbackSlides(slide)
    ELSE LET expanded_slides == parse_presentation_skeleton(response.text)
         IN  IF Len(expanded_slides) # BatchSize
             THEN IF Len(expanded_slides) > BatchSize
                  THEN SubSeq(expanded_slides, 1, BatchSize)
                  ELSE PadBatch(expanded_slides, slide)
             ELSE expanded_slides

\* the 1-based positions of the slides numbered slide_number
PositionsOf(slides, slide_number) ==
    {i \in 1..Len(slides) : slides[i].slide_number = slide_number}

\* find_slide_in_skeleton: <<>> for None, else <<the first slide so numbered>>
find_slide_in_skeleton(presentation_content, slide_number) ==
    LET slides == parse_presentation_skeleton(presentation_content)
        hits == PositionsOf(slides, slide_number)
    IN  IF hits = {} THEN <<>>
        ELSE <<slides[CHOOSE i \in hits : \A j \in hits : i <= j]>>

\* NewSlides that forgets to renumber the slides after the target
NewSlides_NoRenumber(original_slides, target, expanded_slides) ==
    [i \in 1..(target - 1) |-> original_slides[i]]
    \o [i \in 1..Len(expanded_slides) |->
            [expanded_slides[i] EXCEPT !.slide_number = (target - 1) + (i - 1) + 1]]
    \o [i \in 1..(Len(original_slides) - target) |-> original_slides[target + i]]

\* the three loops of create_expanded_presentation that build new_slides;
\* target is the 1-based position of the slide to replace
NewSlides(original_slides, target, expanded_slides) ==
    [i \in 1..(target - 1) |-> original_slides[i]]
    \o [i \in 1..Len(expanded_slides) |->
            [expanded_slides[i] EXCEPT !.slide_number = (target - 1) + (i - 1) + 1]]
    \o [i \in 1..(Len(original_slides) - target) |->
            [original_slides[target + i] EXCEPT
                !.slide_number = original_slides[target + i].slide_number
                                 + RenumberDelta]]

\* the loop that finds target_slide_index, as a 1-based position; the slide
\* is known to be there
TargetPosition(original_slides, slide_number) ==
    LET hits == PositionsOf(original_slides, slide_number)
    IN  CHOOSE i \in hits : \A j \in hits : i <= j

\* create_expanded_presentation when the target exists (the caller has
\* checked find_slide_in_skeleton, so its ValueError branch is not reached)
create_expanded_presentation(original_presentation, slide_number, expanded_slides) ==
    LET original_slides == parse_presentation_skeleton(original_presentation)
    IN  _slides_to_markdown(
            NewSlides(original_slides,
                      TargetPosition(original_slides, slide_number),
                      expanded_slides))

(***************************************************************************)
(* Bounds and the inputs the environment supplies                          *)
(***************************************************************************)

\* operations (process_input, expand_slide) in one behaviour
MaxOps == 3

\* calls of main.process_input in one behaviour
MaxRuns == 2

\* calls of main.expand_slide in one behaviour
MaxExpands == 2

\* failures of the generation service (raised, or no usable data) in one behaviour
MaxFaults == 1

\* the slide numbers a caller asks to expand are 1..MaxTarget
MaxTarget == 4

\* the transcript the generation service returns for the PDF
TranscriptText == "Intro text\n\nMethods text"

\* outlines the generation service may return: a regular three-slide outline;
\* an outline whose marker labels are neither ordered nor distinct, with a
\* title and a bullet that begin like a bullet and a hint line and an empty
\* hint; a text without any marker
OutlineTexts ==
    { "# Deck\n\n## Slide 1: Intro\n- a1\n\n## Slide 2: Methods\n- b1\n- **Visual suggestion:** chart\n\n## Slide 3: Results\n- c1\n",
      "## Slide 7: - Intro\n- a1\n\n## Slide 7: Body\n-**Visual suggestion:** x\n- **Visual suggestion:**\n",
      "No slides here" }

\* replacement batches the generation service may return: three entries, four,
\* one, and a text without any marker
BatchTexts ==
    { "## Slide 1: X\n- x1\n- **Visual suggestion:** vx\n\n## Slide 2: Y\n- y1\n\n## Slide 3: Z\n- z1\n",
      "## Slide 1: X\n## Slide 2: Y\n- y1\n## Slide 3: Z\n## Slide 4: W\n- w1\n",
      "## Slide 9: X\n- x1\n",
      "Sorry" }

\* what one call of the image service does: it returns image data, it returns
\* a response without image data, or it raises
RenderOutcomes == {"image", "nodata", "raise"}

\* the number of failures among the outcomes of the calls 1..n
RECURSIVE FaultsIn(_, _)
FaultsIn(outcomes, n) ==
    IF n = 0 THEN 0
    ELSE FaultsIn(outcomes, n - 1) + (IF outcomes[n] = "image" THEN 0 ELSE 1)

TextFault(response) == IF response.raised THEN 1 ELSE 0

(***************************************************************************)
(* State                                                                   *)
(***************************************************************************)

VARIABLES
    transcriptFile,  \* outputs/<project>/<stem>.md: None, or Some(content)
    fs,              \* version number n |-> the directory outputs/<project>/v<n>
    last,            \* what the last operation did and returned
    runs,            \* calls of process_input so far
    expands,         \* calls of expand_slide so far
    faults,          \* failures of the generation service so far
    allocations,     \* the version numbers the workflow selected, in order
    text,            \* the text handed to the parser on its own
    parsed,          \* None, or Some(the slides the parser returned for text)
    jobs,            \* concurrent invocations of expand_slide_workflow
    interleaved,     \* a step of one invocation fell between the steps of another
    args,            \* the arguments of a function called on its own
    ret              \* None, or Some(the value that call returned)

vars == <<transcriptFile, fs, last, runs, expands, faults, allocations,
          text, parsed, jobs, interleaved, args, ret>>

\* no function is called on its own
NoArgs == [fn |-> "none"]

\* concurrent invocations of expand_slide_workflow are numbered 1..MaxJobs
MaxJobs == 2

\* an invocation that has not started
IdleJob == [pc |-> "idle", version_num |-> 0, raised |-> ""]

\* a version directory just created: no outline file, no slides/ directory
EmptyDir == [outline |-> None, slides |-> FALSE, images |-> <<>>]

\* the result record of an operation, before the operation fills it in
NoResult ==
    [op |-> "none", raised |-> "", stage |-> "", input |-> None,
     slide_number |-> 0, version |-> None, response |-> None,
     original_slides |-> <<>>, target |-> None, expanded_slides |-> <<>>,
     new_slides |-> <<>>, new_presentation |-> None, all_slides |-> <<>>,
     reference |-> None, renders |-> <<>>, images |-> <<>>,
     markdown |-> None, presentation |-> None,
     transcript_hit |-> FALSE, outline_hit |-> FALSE,
     convertCalls |-> 0, outlineCalls |-> 0, batchCalls |-> 0,
     imageCalls |-> 0, propagated |-> FALSE, stop |-> 0]

\* Reraised with an entry point that hands on whatever was raised
Reraised_Always(op, stage) == TRUE

\* an exception leaves the entry point: expand_slide logs it and raises it
\* again, as expand_slide_workflow does; process_input logs whatever is raised
\* inside its try block and returns, and only the construction of the stage
\* objects stands before the try
Reraised(op, stage) == op = "expand" \/ stage = "construct"

\* process_input_endpoint: the response to POST /process once process_input
\* has returned or raised
process_input_endpoint(result) ==
    IF result.propagated
    THEN [status_code |-> 500, success |-> FALSE]
    ELSE [status_code |-> 200, success |-> TRUE]

\* the result of an operation with what its caller gets to see
Outcome(result) ==
    [result EXCEPT !.propagated =
        (result.raised # "" /\ Reraised(result.op, result.stage))]

Init ==
    /\ transcriptFile = None
    /\ fs = <<>>
    /\ last = NoResult
    /\ runs = 0
    /\ expands = 0
    /\ faults = 0
    /\ allocations = <<>>
    /\ text = ""
    /\ parsed = None
    /\ jobs = [j \in 1..MaxJobs |-> IdleJob]
    /\ interleaved = FALSE
    /\ args = NoArgs
    /\ ret = None

(***************************************************************************)
(* Slide renderer (PresentationSlideGenerator.generate_slide_image)        *)
(***************************************************************************)

\* the content of an image file the service produced; by = <<version, run>>
\* tells the call that produced it
Image(by, slide_number) == [kind |-> "image", by |-> by, slide |-> slide_number]

\* the content of the empty file image_path.touch() creates
EmptyFile == [kind |-> "empty", by |-> <<>>, slide |-> 0]

\* generate_slide_image that returns the path although the call raised
generate_slide_image_PathOnRaise(images, slide, outcome, by) ==
    LET n == slide.slide_number
    IN  IF outcome = "image"
        THEN [images |-> (n :> Image(by, n)) @@ images, path |-> Some(n)]
        ELSE IF outcome = "nodata"
        THEN [images |-> IF n \in DOMAIN images THEN images
                         ELSE (n :> EmptyFile) @@ images,
              path |-> Some(n)]
        ELSE [images |-> images, path |-> Some(n)]

\* generate_slide_image that treats a response without image data like an
\* exception: no placeholder, no path
generate_slide_image_NoPlaceholder(images, slide, outcome, by) ==
    LET n == slide.slide_number
    IN  IF outcome = "image"
        THEN [images |-> (n :> Image(by, n)) @@ images, path |-> Some(n)]
        ELSE [images |-> images, path |-> None]

\* generate_slide_image on the files of output_dir (slide number |-> content):
\* the files afterwards and the returned path (None, or Some(slide number)).
\* Image data is saved over whatever is there; without image data the file is
\* touched, which creates it empty or leaves an existing one; an exception
\* writes nothing and returns None.
generate_slide_image(images, slide, outcome, by) ==
    LET n == slide.slide_number
    IN  IF outcome = "image"
        THEN [images |-> (n :> Image(by, n)) @@ images, path |-> Some(n)]
        ELSE IF outcome = "nodata"
        THEN [images |-> IF n \in DOMAIN images THEN images
                         ELSE (n :> EmptyFile) @@ images,
              path |-> Some(n)]
        ELSE [images |-> images, path |-> None]

\* RenderFrom that gives up at the first slide without a returned path
RECURSIVE RenderFrom_StopOnFailure(_, _, _, _, _)
RenderFrom_StopOnFailure(acc, slides, outcomes, by, i) ==
    IF i > Len(slides) THEN acc
    ELSE LET r == generate_slide_image(acc.images, slides[i], outcomes[i], by)
         IN  IF r.path = None THEN acc
             ELSE RenderFrom_StopOnFailure([images |-> r.images,
                                            generated |-> acc.generated \o r.path],
                                           slides, outcomes, by, i + 1)

\* the loop of generate_all_slide_images from slide i on; acc holds the files
\* of output_dir and generated_images
RECURSIVE RenderFrom(_, _, _, _, _)
RenderFrom(acc, slides, outcomes, by, i) ==
    IF i > Len(slides) THEN acc
    ELSE LET r == generate_slide_image(acc.images, slides[i], outcomes[i], by)
         IN  RenderFrom([images |-> r.images,
                         generated |-> acc.generated \o r.path],
                        slides, outcomes, by, i + 1)

\* generate_all_slide_images once the outline is read and parsed
generate_all_slide_images(images, slides, outcomes, by) ==
    RenderFrom([images |-> images, generated |-> <<>>], slides, outcomes, by, 1)

(***************************************************************************)
(* main.process_input on a PDF path                                        *)
(*                                                                         *)
(* In the actions a value computed once and used several times is bound by *)
(* \E v \in {expression}.                                                  *)
(***************************************************************************)

\* process_pdf_and_save: output_path.exists()
TranscriptHit == transcriptFile # None

\* OutlineHit of a stage that never looks for the file
OutlineHit_Never == FALSE

\* generate_and_save_presentation: output_path.exists()
OutlineHit == 0 \in DOMAIN fs /\ fs[0].outline # None

\* the outcomes of n calls of the image service that the failure bound admits
RenderChoices(n) ==
    {outcomes \in [1..n -> RenderOutcomes] :
        faults + FaultsIn(outcomes, n) <= MaxFaults}

\* key_set: GEMINI_KEY is set in the environment; read_fail: the outline file
\* cannot be read back when the images are to be generated;
\* pdf_exists: the input path names an existing file; convert_response and
\* outline_response: what the generation service does if it is called; what
\* the image service does for each slide is chosen once the outline is parsed
ProcessInput(key_set, pdf_exists, convert_response, outline_response, read_fail) ==
    LET transcript_hit == TranscriptHit
        outline_hit == OutlineHit
        base == [NoResult EXCEPT !.op = "process", !.input = Some(pdf_exists),
                                 !.transcript_hit = transcript_hit]
    IN
    /\ runs' = runs + 1
    /\ expands' = expands
    /\ allocations' = allocations
    /\ IF ~key_set
       THEN \* PDFToMarkdown.__init__ raises before the try block is entered
            /\ last' = Outcome([base EXCEPT !.raised = "ValueError",
                                            !.stage = "construct",
                                            !.input = None,
                                            !.transcript_hit = FALSE])
            /\ UNCHANGED <<transcriptFile, fs, faults>>
       ELSE IF ~pdf_exists
       THEN \* convert: neither a YouTube URL nor an existing PDF
            /\ last' = Outcome([base EXCEPT !.raised = "ValueError",
                                            !.stage = "convert",
                                            !.transcript_hit = FALSE])
            /\ UNCHANGED <<transcriptFile, fs, faults>>
       ELSE IF ~transcript_hit /\ convert_response.raised
       THEN \* process_pdf raised: nothing is saved
            /\ last' = Outcome([base EXCEPT !.raised = "Exception",
                                            !.stage = "convert",
                                            !.convertCalls = 1])
            /\ faults' = faults + 1
            /\ UNCHANGED <<transcriptFile, fs>>
       ELSE
       LET markdown == IF transcript_hit THEN transcriptFile[1]
                       ELSE convert_response.text
           calls1 == IF transcript_hit THEN 0 ELSE 1
           done1 == [base EXCEPT !.markdown = Some(markdown),
                                 !.outline_hit = outline_hit,
                                 !.convertCalls = calls1]
       IN
       /\ transcriptFile' = Some(markdown)
       /\ IF ~outline_hit /\ outline_response.raised
          THEN \* generate_presentation_skeleton raised: no v0 file is saved
               /\ last' = Outcome([done1 EXCEPT !.raised = "Exception",
                                                !.stage = "outline",
                                                !.outlineCalls = 1])
               /\ faults' = faults + 1
               /\ fs' = fs
          ELSE
          LET presentation == IF outline_hit THEN fs[0].outline[1]
                              ELSE outline_response.text
              calls2 == IF outline_hit THEN 0 ELSE 1
              v0 == IF 0 \in DOMAIN fs THEN fs[0] ELSE EmptyDir
          IN
          IF read_fail
          THEN \* generate_all_slide_images cannot read the outline: it logs
               \* the error and returns [] before it makes the slides directory
               /\ fs' = (0 :> [v0 EXCEPT !.outline = Some(presentation)]) @@ fs
               /\ faults' = faults + 1
               /\ last' = [done1 EXCEPT !.presentation = Some(presentation),
                                        !.stage = "read",
                                        !.outlineCalls = calls2]
          ELSE
          \E slides \in {parse_presentation_skeleton(presentation)} :
          \E outcomes \in RenderChoices(Len(slides)) :
          \E r \in {generate_all_slide_images(v0.images, slides, outcomes,
                                              <<0, runs + 1>>)} :
          /\ fs' = (0 :> [outline |-> Some(presentation), slides |-> TRUE,
                          images |-> r.images]) @@ fs
          /\ faults' = faults + FaultsIn(outcomes, Len(slides))
          /\ last' = [done1 EXCEPT !.presentation = Some(presentation),
                                   !.all_slides = slides,
                                   !.renders = [i \in 1..Len(slides) |->
                                       [slide_number |-> slides[i].slide_number,
                                        reference |-> None,
                                        outcome |-> outcomes[i]]],
                                   !.images = r.generated,
                                   !.outlineCalls = calls2,
                                   !.imageCalls = Len(slides)]

\* what the generation service may do when asked for one of texts
TextResponses(texts) ==
    {Returned(t) : t \in texts} \cup (IF faults < MaxFaults THEN {Raised} ELSE {})

ProcessInputStep ==
    /\ runs < MaxRuns
    /\ runs + expands < MaxOps
    /\ UNCHANGED <<text, parsed, jobs, interleaved, args, ret>>
    /\ \E key_set \in BOOLEAN :
       \E pdf_exists \in (IF key_set THEN BOOLEAN ELSE {FALSE}) :
       \E convert_response \in
            (IF pdf_exists /\ ~TranscriptHit
             THEN TextResponses({TranscriptText})
             ELSE {Returned("")}) :
       \E outline_response \in
            (IF pdf_exists /\ ~convert_response.raised /\ ~OutlineHit
             THEN TextResponses(OutlineTexts)
             ELSE {Returned("")}) :
           ProcessInput(key_set, pdf_exists, convert_response, outline_response,
                        FALSE)

(***************************************************************************)
(* Version allocation (expand_slide_workflow)                              *)
(***************************************************************************)

\* where the scan "version_num = 1; while True: ..." starts
FirstVersion == 1

\* ScanFrom that goes past the highest existing directory
ScanFrom_PastHighest(dirs, n) ==
    IF \A m \in dirs : m < n THEN n
    ELSE (CHOOSE m \in dirs : \A k \in dirs : k <= m) + 1

\* the while loop: the first n, counting up from n, with no directory v<n>
RECURSIVE ScanFrom(_, _)
ScanFrom(dirs, n) == IF n \notin dirs THEN n ELSE ScanFrom(dirs, n + 1)

\* NextVersion without the scan: always the first version number
NextVersion_First(dirs) == FirstVersion

\* NextVersion that selects the latest existing version directory
NextVersion_Latest(dirs) == CHOOSE n \in dirs : \A m \in dirs : m <= n

\* the version number the workflow selects among the existing directories
NextVersion(dirs) == ScanFrom(dirs, FirstVersion)

(***************************************************************************)
(* SlideExpander.expand_slide: artifact reconciliation                     *)
(***************************************************************************)

\* SourceNumber without the shift for the slides after the replacement range
SourceNumber_NoShift(slide_num, slide_number) == slide_num

\* the number of the prior image an untouched slide's image is copied from
SourceNumber(slide_num, slide_number) ==
    IF slide_num < slide_number THEN slide_num ELSE slide_num - RenumberDelta

\* IsExpandedSlide with a range one slide short
IsExpandedSlide_Short(slide_num, slide_number, expanded_slides) ==
    /\ slide_num >= slide_number
    /\ slide_num < slide_number + Len(expanded_slides) - 1

\* is_expanded_slide
IsExpandedSlide(slide_num, slide_number, expanded_slides) ==
    /\ slide_num >= slide_number
    /\ slide_num < slide_number + Len(expanded_slides)

\* ReconcileOne that leaves a placeholder for a missing prior image
ReconcileOne_TouchMissing(acc, slide, slide_number, expanded_slides, original_images, reference, outcomes, by) ==
    LET slide_num == slide.slide_number
    IN  IF IsExpandedSlide(slide_num, slide_number, expanded_slides)
        THEN LET outcome == outcomes[Len(acc.renders) + 1]
                 r == generate_slide_image(acc.images, slide, outcome, by)
             IN  [images |-> r.images,
                  all_slide_images |-> acc.all_slide_images \o r.path,
                  renders |-> Append(acc.renders,
                                     [slide_number |-> slide_num,
                                      reference |-> reference,
                                      outcome |-> outcome])]
        ELSE LET src == SourceNumber(slide_num, slide_number)
             IN  IF src \in DOMAIN original_images
                 THEN [acc EXCEPT
                         !.images = (slide_num :> original_images[src]) @@ acc.images,
                         !.all_slide_images = Append(acc.all_slide_images, slide_num)]
                 ELSE [acc EXCEPT
                         !.images = (slide_num :> EmptyFile) @@ acc.images,
                         !.all_slide_images = Append(acc.all_slide_images, slide_num)]

\* one iteration of "for slide in all_slides"; acc holds the files of the new
\* slides/ directory, all_slide_images and the render calls made so far. The
\* call passes original_slide_image_path as a further argument: the reference
\* goes with the request to the image service, and the file written and the
\* path returned are those of generate_slide_image.
ReconcileOne(acc, slide, slide_number, expanded_slides, original_images, reference, outcomes, by) ==
    LET slide_num == slide.slide_number
    IN  IF IsExpandedSlide(slide_num, slide_number, expanded_slides)
        THEN LET outcome == outcomes[Len(acc.renders) + 1]
                 r == generate_slide_image(acc.images, slide, outcome, by)
             IN  [images |-> r.images,
                  all_slide_images |-> acc.all_slide_images \o r.path,
                  renders |-> Append(acc.renders,
                                     [slide_number |-> slide_num,
                                      reference |-> reference,
                                      outcome |-> outcome])]
        ELSE LET src == SourceNumber(slide_num, slide_number)
             IN  IF src \in DOMAIN original_images
                 THEN [acc EXCEPT
                         !.images = (slide_num :> original_images[src]) @@ acc.images,
                         !.all_slide_images = Append(acc.all_slide_images, slide_num)]
                 ELSE acc

RECURSIVE ReconcileFrom(_, _, _, _, _, _, _, _, _)
ReconcileFrom(acc, all_slides, slide_number, expanded_slides, original_images, reference, outcomes, by, i) ==
    IF i > Len(all_slides) THEN acc
    ELSE ReconcileFrom(
            ReconcileOne(acc, all_slides[i], slide_number, expanded_slides,
                         original_images, reference, outcomes, by),
            all_slides, slide_number, expanded_slides, original_images,
            reference, outcomes, by, i + 1)

\* ThemeReference that does not look whether the file is there
ThemeReference_Unchecked(source_dir, slide_number) == Some(slide_number)

\* the image of the original target slide, used for theming: None or Some(number)
ThemeReference(source_dir, slide_number) ==
    IF source_dir.slides /\ slide_number \in DOMAIN source_dir.images
    THEN Some(slide_number) ELSE None

(***************************************************************************)
(* main.expand_slide -> expand_slide_workflow -> SlideExpander.expand_slide *)
(***************************************************************************)

\* 1 when a copy of the reconcile loop raises, else 0
CopyFault(stop) == IF stop = 0 THEN 0 ELSE 1

\* the loop copies a prior image for the slide at position stop
CopiedAt(all_slides, stop, slide_number, expanded_slides, original_images) ==
    /\ stop \in 1..Len(all_slides)
    /\ ~IsExpandedSlide(all_slides[stop].slide_number, slide_number,
                        expanded_slides)
    /\ SourceNumber(all_slides[stop].slide_number, slide_number)
          \in DOMAIN original_images

\* ProcessedBefore of a loop whose work is lost when a copy raises
ProcessedBefore_None(all_slides, stop) ==
    IF stop = 0 THEN all_slides ELSE <<>>

\* the slides the reconcile loop is done with: all of them, or those before
\* the slide at position stop, whose shutil.copy2 raises
ProcessedBefore(all_slides, stop) ==
    IF stop = 0 THEN all_slides
    ELSE SubSeq(all_slides, 1, stop - 1)

\* slide_number: the slide to expand; response: what the generation service
\* does when asked for the replacement batch; stop: 0, or the position of the
\* slide whose copy raises; what the image service does for each render of the
\* reconcile loop is chosen when the loop is reached
ExpandSlide(slide_number, response, stop) ==
    LET base == [NoResult EXCEPT !.op = "expand", !.slide_number = slide_number]
    IN
    /\ expands' = expands + 1
    /\ runs' = runs
    /\ transcriptFile' = transcriptFile
    /\ IF transcriptFile = None /\ DOMAIN fs = {}
       THEN \* no output folder
            /\ last' = Outcome([base EXCEPT !.raised = "ValueError",
                                            !.stage = "folder"])
            /\ UNCHANGED <<fs, faults, allocations>>
       ELSE IF ~(0 \in DOMAIN fs /\ fs[0].outline # None)
       THEN \* no *_presentation.md in v0/ nor in the main directory
            /\ last' = Outcome([base EXCEPT !.raised = "ValueError",
                                            !.stage = "files"])
            /\ UNCHANGED <<fs, faults, allocations>>
       ELSE
       LET version_num == NextVersion(DOMAIN fs)
           original_presentation == fs[0].outline[1]
       IN
       \E original_slides \in {parse_presentation_skeleton(original_presentation)} :
       \E target_slide \in {find_slide_in_skeleton(original_presentation,
                                                   slide_number)} :
       LET allocated == [base EXCEPT !.version = Some(version_num),
                                     !.original_slides = original_slides]
       IN
       /\ allocations' = Append(allocations, version_num)
       /\ IF target_slide = <<>>
          THEN \* the version directory is already made when the target is looked up
               /\ fs' = (version_num :> EmptyDir) @@ fs
               /\ last' = Outcome([allocated EXCEPT !.raised = "ValueError",
                                                    !.stage = "target"])
               /\ faults' = faults
          ELSE
          \E expanded_slides \in {expand_slide_content(target_slide[1], response)} :
          \E new_slides \in {NewSlides(original_slides,
                                       TargetPosition(original_slides, slide_number),
                                       expanded_slides)} :
          \E new_presentation \in {create_expanded_presentation(
                                      original_presentation, slide_number,
                                      expanded_slides)} :
          \E all_slides \in {parse_presentation_skeleton(new_presentation)} :
          \E reference \in {ThemeReference(fs[0], slide_number)} :
          \E outcomes \in
               {o \in [1..BatchSize -> RenderOutcomes] :
                   faults + TextFault(response) + FaultsIn(o, BatchSize)
                       + CopyFault(stop) <= MaxFaults} :
          \E r \in {ReconcileFrom([images |-> <<>>, all_slide_images |-> <<>>,
                                    renders |-> <<>>],
                                   ProcessedBefore(all_slides, stop),
                                   slide_number, expanded_slides,
                                   fs[0].images, reference, outcomes,
                                   <<version_num, 0>>, 1)} :
          /\ stop # 0 => CopiedAt(all_slides, stop, slide_number,
                                  expanded_slides, fs[0].images)
          /\ fs' = (version_num :> [outline |-> Some(new_presentation),
                                    slides |-> TRUE,
                                    images |-> r.images]) @@ fs
          /\ faults' = faults + TextFault(response) + FaultsIn(outcomes, BatchSize)
                              + CopyFault(stop)
          /\ last' = Outcome([allocated EXCEPT
                        !.response = Some(response),
                        !.target = target_slide,
                        !.expanded_slides = expanded_slides,
                        !.new_slides = new_slides,
                        !.new_presentation = Some(new_presentation),
                        !.all_slides = all_slides,
                        !.reference = reference,
                        !.renders = r.renders,
                        !.images = IF stop = 0 THEN r.all_slide_images ELSE <<>>,
                        !.raised = IF stop = 0 THEN "" ELSE "OSError",
                        !.stage = IF stop = 0 THEN "" ELSE "reconcile",
                        !.stop = stop,
                        !.batchCalls = 1,
                        !.imageCalls = Len(r.renders)])

\* the target is a slide number of the v0 outline, so the generation service
\* is reached
TargetFound(slide_number) ==
    /\ 0 \in DOMAIN fs
    /\ fs[0].outline # None
    /\ find_slide_in_skeleton(fs[0].outline[1], slide_number) # <<>>

ExpandSlideStep ==
    /\ expands < MaxExpands
    /\ runs + expands < MaxOps
    /\ UNCHANGED <<text, parsed, jobs, interleaved, args, ret>>
    /\ \E slide_number \in 1..MaxTarget :
       \E response \in
            (IF TargetFound(slide_number)
             THEN TextResponses(BatchTexts)
             ELSE {Returned("")}) :
           ExpandSlide(slide_number, response, 0)

Next == ProcessInputStep \/ ExpandSlideStep

Spec == Init /\ [][Next]_vars

(***************************************************************************)
(* The same operations when reading or copying a file may fail: the        *)
(* outline cannot be read back for rendering, or shutil.copy2 raises in    *)
(* the reconcile loop. Such a failure counts as one of the MaxFaults.      *)
(***************************************************************************)

\* process_input whose generate_all_slide_images cannot read the outline
IoProcessInputStep ==
    /\ runs < MaxRuns
    /\ runs + expands < MaxOps
    /\ faults < MaxFaults
    /\ UNCHANGED <<text, parsed, jobs, interleaved, args, ret>>
    /\ \E convert_response \in {Returned(TranscriptText)} :
       \E outline_response \in {Returned(t) : t \in OutlineTexts} :
           ProcessInput(TRUE, TRUE, convert_response, outline_response, TRUE)

\* expand_slide whose reconcile loop raises at a copy
IoExpandSlideStep ==
    /\ expands < MaxExpands
    /\ runs + expands < MaxOps
    /\ faults < MaxFaults
    /\ UNCHANGED <<text, parsed, jobs, interleaved, args, ret>>
    /\ \E slide_number \in 1..MaxTarget :
          /\ TargetFound(slide_number)
          /\ \E response \in {Returned(t) : t \in BatchTexts} :
             \E stop \in 1..(Len(parse_presentation_skeleton(fs[0].outline[1]))
                               + BatchSize - 1) :
                 ExpandSlide(slide_number, response, stop)

IoNext ==
    ProcessInputStep \/ ExpandSlideStep \/ IoProcessInputStep \/ IoExpandSlideStep

IoSpec == Init /\ [][IoNext]_vars

(***************************************************************************)
(* The parser on its own: parse_presentation_skeleton applied to a text    *)
(***************************************************************************)

\* the texts handed to the parser have 1..MaxLines lines
MaxLines == 3

\* the lines the texts are made of: slide markers (one with an empty title),
\* a bullet, two hint lines, a line that resembles a hint line, a sub-heading,
\* a heading that is no slide marker, an empty line
ParseLines ==
    { "## Slide 1: A", "## Slide 5: B", "## Slide 2: ", "- b1",
      "- **Visual suggestion:** v", "- **Visual suggestion:** w",
      "- Visual suggestion: x", "### Sub", "## Notes", "" }

ParseTexts ==
    {JoinLines(ls) : ls \in UNION {[1..n -> ParseLines] : n \in 1..MaxLines}}

ParseInit ==
    /\ text \in ParseTexts
    /\ parsed = None
    /\ transcriptFile = None
    /\ fs = <<>>
    /\ last = NoResult
    /\ runs = 0
    /\ expands = 0
    /\ faults = 0
    /\ allocations = <<>>
    /\ jobs = [j \in 1..MaxJobs |-> IdleJob]
    /\ interleaved = FALSE
    /\ args = NoArgs
    /\ ret = None

ParseStep ==
    /\ parsed = None
    /\ parsed' = Some(parse_presentation_skeleton(text))
    /\ UNCHANGED <<text, transcriptFile, fs, last, runs, expands, faults,
                   allocations, jobs, interleaved, args, ret>>

ParseSpec == ParseInit /\ [][ParseStep]_vars

(***************************************************************************)
(* Concurrent invocations of expand_slide_workflow on one project. Every   *)
(* test of the scan, the creation of the directory and the expansion are   *)
(* steps of their own; invocation j expands slide j, and the generation    *)
(* service answers every call.                                             *)
(***************************************************************************)

\* the batch the generation service returns to every invocation
RaceBatchText == "## Slide 1: X\n- x1\n\n## Slide 2: Y\n- y1\n\n## Slide 3: Z\n- z1\n"

\* the project after process_input: transcript, v0 outline, one image a slide
RaceInit ==
    /\ transcriptFile = Some(TranscriptText)
    /\ \E presentation \in OutlineTexts :
          fs = (0 :> [outline |-> Some(presentation), slides |-> TRUE,
                      images |-> [n \in 1..Len(parse_presentation_skeleton(presentation))
                                    |-> Image(<<0, 1>>, n)]])
    /\ last = NoResult
    /\ runs = 1
    /\ expands = 0
    /\ faults = 0
    /\ allocations = <<>>
    /\ text = ""
    /\ parsed = None
    /\ jobs = [j \in 1..MaxJobs |-> IdleJob]
    /\ interleaved = FALSE
    /\ args = NoArgs
    /\ ret = None

\* another invocation is between its start and its end
OthersRunning(j) ==
    \E i \in 1..MaxJobs : i # j /\ jobs[i].pc \in {"scan", "mkdir", "expand"}

\* VersionFree that never finds a directory
VersionFree_Always(dirs, n) == TRUE

\* "if not version_dir.exists()"
VersionFree(dirs, n) == n \notin dirs

\* what every step of invocation j leaves alone or records
JobFrame(j) ==
    /\ interleaved' = (interleaved \/ OthersRunning(j))
    /\ UNCHANGED <<transcriptFile, last, runs, expands, faults, text, parsed,
                   args, ret>>

\* version_num = 1
JobStart(j) ==
    /\ jobs[j].pc = "idle"
    /\ jobs' = [jobs EXCEPT ![j] = [@ EXCEPT !.pc = "scan",
                                             !.version_num = FirstVersion]]
    /\ UNCHANGED <<fs, allocations>>
    /\ JobFrame(j)

\* one pass of the while loop: break, or version_num += 1
JobScan(j) ==
    /\ jobs[j].pc = "scan"
    /\ jobs' = [jobs EXCEPT ![j] =
                  IF VersionFree(DOMAIN fs, @.version_num)
                  THEN [@ EXCEPT !.pc = "mkdir"]
                  ELSE [@ EXCEPT !.version_num = @ + 1]]
    /\ UNCHANGED <<fs, allocations>>
    /\ JobFrame(j)

\* output_dir.mkdir(parents=True, exist_ok=True)
JobMkdir(j) ==
    /\ jobs[j].pc = "mkdir"
    /\ fs' = IF jobs[j].version_num \in DOMAIN fs THEN fs
             ELSE (jobs[j].version_num :> EmptyDir) @@ fs
    /\ allocations' = Append(allocations, jobs[j].version_num)
    /\ jobs' = [jobs EXCEPT ![j] = [@ EXCEPT !.pc = "expand"]]
    /\ JobFrame(j)

\* expander.expand_slide(presentation_path, transcript_path, j, output_dir)
JobExpand(j) ==
    /\ jobs[j].pc = "expand"
    /\ allocations' = allocations
    /\ JobFrame(j)
    /\ \E target_slide \in {find_slide_in_skeleton(fs[0].outline[1], j)} :
       IF target_slide = <<>>
       THEN /\ jobs' = [jobs EXCEPT ![j] = [@ EXCEPT !.pc = "done",
                                                    !.raised = "ValueError"]]
            /\ fs' = fs
       ELSE
       \E expanded_slides \in {expand_slide_content(target_slide[1],
                                                    Returned(RaceBatchText))} :
       \E new_presentation \in {create_expanded_presentation(
                                   fs[0].outline[1], j, expanded_slides)} :
       \E r \in {ReconcileFrom([images |-> fs[jobs[j].version_num].images,
                                 all_slide_images |-> <<>>, renders |-> <<>>],
                                parse_presentation_skeleton(new_presentation),
                                j, expanded_slides, fs[0].images,
                                ThemeReference(fs[0], j),
                                [i \in 1..BatchSize |-> "image"],
                                <<jobs[j].version_num, j>>, 1)} :
       /\ fs' = [fs EXCEPT ![jobs[j].version_num] =
                    [outline |-> Some(new_presentation), slides |-> TRUE,
                     images |-> r.images]]
       /\ jobs' = [jobs EXCEPT ![j] = [@ EXCEPT !.pc = "done"]]

RaceNext ==
    \E j \in 1..MaxJobs : JobStart(j) \/ JobScan(j) \/ JobMkdir(j) \/ JobExpand(j)

RaceSpec == RaceInit /\ [][RaceNext]_vars

(***************************************************************************)
(* Context selection (SlideExpander.find_transcript_content_for_slide)     *)
(***************************************************************************)

\* "len(word) > 3": a search term is longer than this
MinTermLen == 3

\* "len(section.strip()) < 50": a shorter section is skipped
MinSectionLen == 50

\* "transcript_content[:1000]": the length of the fallback excerpt
ExcerptLen == 1000

UpperChars == "ABCDEFGHIJKLMNOPQRSTUVWXYZ"
LowerChars == "abcdefghijklmnopqrstuvwxyz"

\* one character lowered
LowerChar(c) ==
    IF \E i \in 1..26 : CharAt(UpperChars, i) = c
    THEN CharAt(LowerChars, CHOOSE i \in 1..26 : CharAt(UpperChars, i) = c)
    ELSE c

\* s.lower(), halving the string
RECURSIVE Lower(_)
Lower(s) ==
    IF Len(s) = 0 THEN ""
    ELSE IF Len(s) = 1 THEN LowerChar(s)
    ELSE Lower(SubSeq(s, 1, Len(s) \div 2))
         \o Lower(SubSeq(s, Len(s) \div 2 + 1, Len(s)))

\* the position of the first whitespace character at or after i, or Len(s) + 1
RECURSIVE WordEnd(_, _)
WordEnd(s, i) ==
    IF i > Len(s) \/ CharAt(s, i) \in Whitespace THEN i ELSE WordEnd(s, i + 1)

\* s.split(): the maximal runs of non-whitespace characters, in order
RECURSIVE SplitWords(_)
SplitWords(s) ==
    LET t == LStrip(s)
        e == WordEnd(t, 1)
    IN  IF Len(t) = 0 THEN <<>>
        ELSE <<SubSeq(t, 1, e - 1)>> \o SplitWords(From(t, e))

\* "term in section_lower"
Contains(s, p) == \E i \in 1..(Len(s) - Len(p) + 1) : StartsAt(s, i, p)

\* transcript_content.split("\n\n")
RECURSIVE SplitSections(_)
SplitSections(s) ==
    LET hits == {i \in 1..(Len(s) - 1) : StartsAt(s, i, "\n\n")}
    IN  IF hits = {} THEN <<s>>
        ELSE LET e == CHOOSE i \in hits : \A j \in hits : i <= j
             IN  <<SubSeq(s, 1, e - 1)>> \o SplitSections(From(s, e + 2))

common_words ==
    {
      "the", "and", "for", "are", "but", "not", "you", "all", "can", "had",
      "her", "was", "one", "our", "out", "day", "get", "has", "him", "his",
      "how", "its", "may", "new", "now", "old", "see", "two", "way", "who",
      "boy", "did", "man", "men", "put", "say", "she", "too", "use" }

\* the words of one text that are long enough to be search terms
LongWords(t) ==
    LET words == SplitWords(Lower(t))
    IN  {words[i] : i \in {j \in 1..Len(words) : Len(words[j]) > MinTermLen}}

\* search_terms: the long words of the title and of the bullets, without the
\* common words, each once
search_terms(slide) ==
    (LongWords(slide.title)
     \cup UNION {LongWords(slide.bullet_points[i]) :
                    i \in 1..Len(slide.bullet_points)})
    \ common_words

\* "sum(1 for term in search_terms if term in section_lower)"
Matches(terms, section) ==
    LET section_lower == Lower(section)
    IN  Cardinality({term \in terms : Contains(section_lower, term)})

\* BestFrom that lets a later section of equal score replace the best one
RECURSIVE BestFrom_LastOnTie(_, _, _, _, _)
BestFrom_LastOnTie(terms, sections, i, best_match, max_matches) ==
    IF i > Len(sections) THEN best_match
    ELSE IF Len(Strip(sections[i])) < MinSectionLen
    THEN BestFrom_LastOnTie(terms, sections, i + 1, best_match, max_matches)
    ELSE LET matches == Matches(terms, sections[i])
         IN  IF matches >= max_matches /\ matches > 0
             THEN BestFrom_LastOnTie(terms, sections, i + 1, sections[i], matches)
             ELSE BestFrom_LastOnTie(terms, sections, i + 1, best_match, max_matches)

\* "for section in sections" from the i-th section on
RECURSIVE BestFrom(_, _, _, _, _)
BestFrom(terms, sections, i, best_match, max_matches) ==
    IF i > Len(sections) THEN best_match
    ELSE IF Len(Strip(sections[i])) < MinSectionLen
    THEN BestFrom(terms, sections, i + 1, best_match, max_matches)
    ELSE LET matches == Matches(terms, sections[i])
         IN  IF matches > max_matches
             THEN BestFrom(terms, sections, i + 1, sections[i], matches)
             ELSE BestFrom(terms, sections, i + 1, best_match, max_matches)

\* transcript_content[:1000]
Excerpt(transcript_content) ==
    SubSeq(transcript_content, 1,
           IF Len(transcript_content) < ExcerptLen THEN Len(transcript_content)
           ELSE ExcerptLen)

find_transcript_content_for_slide(slide, transcript_content) ==
    LET best_match == BestFrom(search_terms(slide),
                               SplitSections(transcript_content), 1, "", 0)
    IN  IF best_match # "" THEN best_match ELSE Excerpt(transcript_content)

\* a transcript has 1..MaxSections sections
MaxSections == 2

\* s repeated n times
RECURSIVE Repeat(_, _)
Repeat(s, n) == IF n = 0 THEN "" ELSE s \o Repeat(s, n - 1)

\* the slides context is selected for: four terms; no term at all; a term
\* that occurs in the title and in a bullet
ContextSlides ==
    { [slide_number |-> 1, title |-> "Methods Overview",
       bullet_points |-> <<"the results matter">>, visual_suggestion |-> None],
      [slide_number |-> 2, title |-> "The", bullet_points |-> <<>>,
       visual_suggestion |-> None],
      [slide_number |-> 3, title |-> "RESULTS and data",
       bullet_points |-> <<"results">>, visual_suggestion |-> None] }

\* the sections transcripts are made of: long sections with one, several and
\* no terms, a short section full of terms, a section that is long only by
\* its surrounding spaces, and a section longer than the excerpt
ContextSections ==
    { "Our methods are described here in sufficient detail for all.",
      "The RESULTS of the methods matter: an overview of the data.",
      "An overview is given in this long enough paragraph of text.",
      "Results first, then methods, with plenty of words around.",
      "Nothing relevant appears anywhere in this paragraph at all.",
      "methods results data",
      "                  methods results data overview                  ",
      Repeat("lorem ipsum dolor ", 60) }

\* "\n\n".join(sections)
RECURSIVE JoinSections(_)
JoinSections(sections) ==
    IF Len(sections) = 1 THEN sections[1]
    ELSE sections[1] \o "\n\n" \o JoinSections(Tail(sections))

ContextTranscripts ==
    {JoinSections(ss) :
        ss \in UNION {[1..n -> ContextSections] : n \in 1..MaxSections}}

ContextInit ==
    /\ \E slide \in ContextSlides : \E transcript_content \in ContextTranscripts :
          args = [fn |-> "find_transcript_content_for_slide", slide |-> slide,
                  transcript_content |-> transcript_content]
    /\ ret = None
    /\ transcriptFile = None
    /\ fs = <<>>
    /\ last = NoResult
    /\ runs = 0
    /\ expands = 0
    /\ faults = 0
    /\ allocations = <<>>
    /\ text = ""
    /\ parsed = None
    /\ jobs = [j \in 1..MaxJobs |-> IdleJob]
    /\ interleaved = FALSE

ContextStep ==
    /\ args.fn = "find_transcript_content_for_slide"
    /\ ret = None
    /\ ret' = Some(find_transcript_content_for_slide(args.slide,
                                                     args.transcript_content))
    /\ UNCHANGED <<args, transcriptFile, fs, last, runs, expands, faults,
                   allocations, text, parsed, jobs, interleaved>>

ContextSpec == ContextInit /\ [][ContextStep]_vars

(***************************************************************************)
(* The version scan on its own: the directories v<n> of the base directory *)
(* are any set of numbers 0..MaxDir                                        *)
(***************************************************************************)

\* the version directories that may exist are v0..v<MaxDir>
MaxDir == 6

ScanInit ==
    /\ \E dirs \in SUBSET (0..MaxDir) :
          args = [fn |-> "expand_slide_workflow", dirs |-> dirs]
    /\ ret = None
    /\ transcriptFile = None
    /\ fs = <<>>
    /\ last = NoResult
    /\ runs = 0
    /\ expands = 0
    /\ faults = 0
    /\ allocations = <<>>
    /\ text = ""
    /\ parsed = None
    /\ jobs = [j \in 1..MaxJobs |-> IdleJob]
    /\ interleaved = FALSE

ScanStep ==
    /\ args.fn = "expand_slide_workflow"
    /\ ret = None
    /\ ret' = Some(NextVersion(args.dirs))
    /\ UNCHANGED <<args, transcriptFile, fs, last, runs, expands, faults,
                   allocations, text, parsed, jobs, interleaved>>

ScanSpec == ScanInit /\ [][ScanStep]_vars

(***************************************************************************)
(* Properties                                                              *)
(***************************************************************************)

\* the last operation was an expansion that wrote its outline
Expanded == last.op = "expand" /\ last.new_presentation # None

\* the numbers of slides are their 1-based positions: exactly 1..N
Numbered(slides) ==
    /\ \A i \in 1..Len(slides) : slides[i].slide_number = i
    /\ {slides[i].slide_number : i \in 1..Len(slides)} = 1..Len(slides)

\* the labels "Slide 1", ..., "Slide n"
PositionLabels(n) == [i \in 1..n |-> "Slide " \o IntToStr(i)]

\* two slides agree in title, bullets (in order) and visual hint
SameContent(a, b) ==
    /\ a.title = b.title
    /\ a.bullet_points = b.bullet_points
    /\ a.visual_suggestion = b.visual_suggestion

\* C1: every outline the parser produces, and the outline an expansion builds
\* and writes, is numbered 1..N without duplicates or gaps; the labels written
\* into the expanded outline are the positions; the parser numbers by position
\* whatever labels the markers carry.
C1_Numbering ==
    /\ (last.op = "process" /\ last.presentation # None)
          => Numbered(last.all_slides)
    /\ last.op = "expand" => Numbered(last.original_slides)
    /\ Expanded =>
          /\ Numbered(last.new_slides)
          /\ Numbered(last.all_slides)
          /\ MarkerLabels(last.new_presentation[1])
                = PositionLabels(Len(last.new_slides))

\* C1 witness: an expansion wrote an outline with slides after the target, from
\* an original whose marker labels are not the positions
C1_Witness ==
    /\ Expanded
    /\ last.slide_number < Len(last.original_slides)
    /\ MarkerLabels(fs[0].outline[1]) # PositionLabels(Len(last.original_slides))

\* C2: expanding slide k of N slides gives N + B - 1 slides; a slide numbered
\* below k keeps its number, a slide numbered above k gets its number + (B - 1).
C2_SpliceArithmetic ==
    Expanded =>
        LET old == last.original_slides
            k == last.slide_number
        IN  /\ Len(last.new_slides) = Len(old) + BatchSize - 1
            /\ Len(last.all_slides) = Len(old) + BatchSize - 1
            /\ \A i \in 1..Len(old) :
                  /\ old[i].slide_number < k =>
                        last.new_slides[i].slide_number = old[i].slide_number
                  /\ old[i].slide_number > k =>
                        last.new_slides[i + BatchSize - 1].slide_number
                            = old[i].slide_number + (BatchSize - 1)

\* C2 witness: slide 2 of three slides was expanded: one slide before the
\* target, one after
C2_Witness ==
    /\ Expanded
    /\ last.slide_number = 2
    /\ Len(last.original_slides) = 3
    /\ Len(last.all_slides) = 5

\* C3: in the outline an expansion of slide k produces, every untouched slide
\* has the title, bullets and visual hint it had, in the same relative order,
\* and the B replacement entries are at positions k .. k+B-1 in batch order.
C3_UntouchedUnchanged ==
    Expanded =>
        LET old == last.original_slides
            new == last.all_slides
            k == last.slide_number
        IN  /\ Len(new) = Len(old) + BatchSize - 1
            /\ \A i \in 1..Len(old) :
                  /\ i < k => SameContent(new[i], old[i])
                  /\ i > k => SameContent(new[i + BatchSize - 1], old[i])
            /\ \A j \in 1..BatchSize :
                  new[k + j - 1].title = last.expanded_slides[j].title

\* C4: serializing an outline and parsing the text again gives as many slides,
\* each with the title, bullets and visual hint of the original, numbered by
\* position.
C4_RoundTrip ==
    Expanded =>
        /\ Len(last.all_slides) = Len(last.new_slides)
        /\ \A i \in 1..Len(last.new_slides) :
              /\ SameContent(last.all_slides[i], last.new_slides[i])
              /\ last.all_slides[i].slide_number = i

C7_BatchNormalized ==
    (last.op = "expand" /\ last.response # None) =>
        /\ Len(last.expanded_slides) = BatchSize
        /\ ~last.response[1].raised =>
              LET batch == parse_presentation_skeleton(last.response[1].text)
              IN  \A i \in 1..BatchSize :
                     IF i <= Len(batch)
                     THEN last.expanded_slides[i] = batch[i]
                     ELSE last.expanded_slides[i]
                             = [last.target[1] EXCEPT
                                  !.title = last.target[1].title \o " (Part "
                                            \o IntToStr(i) \o ")"]

\* C7 witness: the service returned one entry, which was kept and padded
C7_Witness ==
    /\ last.op = "expand"
    /\ last.response # None
    /\ ~last.response[1].raised
    /\ Len(parse_presentation_skeleton(last.response[1].text)) = 1
    /\ Len(last.expanded_slides) = BatchSize

\* the slide number is absent from the outline expand_slide reads
TargetAbsent(slide_number) ==
    /\ 0 \in DOMAIN fs
    /\ fs[0].outline # None
    /\ PositionsOf(parse_presentation_skeleton(fs[0].outline[1]),
                   slide_number) = {}

\* C8: an expansion whose target is absent raises ValueError and writes
\* nothing: no directory or file exists afterwards that did not exist before.
C8_NotFoundWritesNothing ==
    [][(last'.op = "expand" /\ expands' = expands + 1
        /\ TargetAbsent(last'.slide_number))
          => (/\ last'.raised = "ValueError"
              /\ fs' = fs
              /\ transcriptFile' = transcriptFile)]_vars

\* C9: a text stage whose output file exists returns the file's content, calls
\* the service zero times and leaves the file as it is; a stage whose file does
\* not exist calls the service once and, when the call returns, the file holds
\* the returned text.
C9_TextStageCache ==
    [][(last'.op = "process" /\ runs' = runs + 1 /\ last'.input = Some(TRUE))
          => /\ transcriptFile # None =>
                    /\ last'.convertCalls = 0
                    /\ transcriptFile' = transcriptFile
                    /\ last'.markdown = transcriptFile
             /\ transcriptFile = None =>
                    /\ last'.convertCalls = 1
                    /\ last'.stage # "convert" =>
                          /\ transcriptFile' # None
                          /\ transcriptFile' = last'.markdown
             /\ last'.markdown # None =>
                    IF 0 \in DOMAIN fs /\ fs[0].outline # None
                    THEN /\ last'.outlineCalls = 0
                         /\ fs'[0].outline = fs[0].outline
                         /\ last'.presentation = fs[0].outline
                    ELSE /\ last'.outlineCalls = 1
                         /\ last'.stage # "outline" =>
                               /\ 0 \in DOMAIN fs'
                               /\ fs'[0].outline # None
                               /\ fs'[0].outline = last'.presentation]_vars

\* C9 witness: a second run found both files and called no text service
C9_Witness ==
    /\ last.op = "process"
    /\ runs = 2
    /\ last.transcript_hit
    /\ last.outline_hit
    /\ last.convertCalls = 0
    /\ last.outlineCalls = 0
    /\ last.presentation = fs[0].outline

\* C10: a slide whose image file exists in the output slides directory is not
\* rendered again and its file is kept.
C10_ImageCache ==
    [][(last'.op = "process" /\ runs' = runs + 1 /\ 0 \in DOMAIN fs)
          => \A n \in DOMAIN fs[0].images :
                /\ fs'[0].images[n] = fs[0].images[n]
                /\ \A i \in 1..Len(last'.renders) :
                      last'.renders[i].slide_number # n]_vars
\* the lines of the i-th slide's body: the matched content without its title line
BodyLines(i) ==
    LET lines == SplitLines(FindAll(text, 1)[i][2])
    IN  [n \in 1..(Len(lines) - 1) |-> Strip(lines[n + 1])]

\* a line that starts like a bullet but not with the exact hint marker
PlainBullet(line) == StartsWith(line, "-") /\ ~StartsWith(line, HintMarker)

\* C11: a body line that starts with "-" but not with the exact literal
\* "- **Visual suggestion:**" is a bullet and sets no hint; a line that starts
\* with the exact literal is not among the bullets, and the hint is set by
\* such a line and by no other.
C11_HintExactMatch ==
    parsed # None =>
        \A i \in 1..Len(parsed[1]) :
            LET body == BodyLines(i)
                slide == parsed[1][i]
                plain == {n \in 1..Len(body) : PlainBullet(body[n])}
                hints == {n \in 1..Len(body) : StartsWith(body[n], HintMarker)}
            IN  /\ \A n \in plain :
                      \E b \in 1..Len(slide.bullet_points) :
                          slide.bullet_points[b] = Strip(From(body[n], 2))
                /\ Len(slide.bullet_points) = Cardinality(plain)
                /\ (hints = {}) <=> (slide.visual_suggestion = None)
                /\ hints # {} =>
                      \E n \in hints :
                          slide.visual_suggestion
                              = Some(Strip(From(body[n], Len(HintMarker) + 1)))

\* C11 witness: a slide with a hint line and a line that resembles one: the
\* first is the hint, the second a bullet
C11_Witness ==
    /\ parsed # None
    /\ text = "## Slide 1: A\n- Visual suggestion: x\n- **Visual suggestion:** v"
    /\ parsed[1][1].bullet_points = <<"Visual suggestion: x">>
    /\ parsed[1][1].visual_suggestion = Some("v")
\* a line that is a slide marker: "## Slide <digits>: " at its start
IsMarkerLine(line) ==
    /\ StartsWith(line, "## Slide ")
    /\ DigitsEnd(line, 10) > 10
    /\ StartsAt(line, DigitsEnd(line, 10), ": ")

\* the indexes of the marker lines among lines[n..], in order
RECURSIVE MarkerIndexes(_, _)
MarkerIndexes(lines, n) ==
    IF n > Len(lines) THEN <<>>
    ELSE (IF IsMarkerLine(lines[n]) THEN <<n>> ELSE <<>>)
         \o MarkerIndexes(lines, n + 1)

\* C19: when the parser returns one slide per marker line, the bullets of a
\* slide are the bullet lines between its marker and the next marker (or the
\* end of the text), whatever other lines stand between them.
C19_BodyExtent ==
    parsed # None =>
        LET lines == SplitLines(text)
            markers == MarkerIndexes(lines, 1)
            next(i) == IF i < Len(markers) THEN markers[i + 1] ELSE Len(lines) + 1
        IN  Len(parsed[1]) = Len(markers) =>
                \A i \in 1..Len(markers) :
                    parsed[1][i].bullet_points
                        = BulletsOf(SubSeq(lines, markers[i] + 1, next(i) - 1))
\* C20: every slide the parser returns has a non-empty title.
C20_NonEmptyTitle ==
    parsed # None => \A i \in 1..Len(parsed[1]) : parsed[1][i].title # ""
\* slide number n is among the returned image paths
Returned_Image(n) == \E i \in 1..Len(last.images) : last.images[i] = n

\* C12: a failed render does not end the batch. generate_all_slide_images calls
\* the renderer for every slide of the outline and returns the paths of all
\* renders that gave one; the reconcile loop of an expansion renders every
\* slide of the replacement range and copies every untouched slide whose prior
\* image exists; neither raises.
C12_FailureNotFatal ==
    /\ (last.op = "process" /\ last.presentation # None) =>
          /\ last.raised = ""
          /\ Len(last.renders) = Len(last.all_slides)
          /\ \A i \in 1..Len(last.renders) :
                /\ last.renders[i].slide_number = i
                /\ last.renders[i].outcome # "raise" => Returned_Image(i)
    /\ Expanded =>
          LET k == last.slide_number
              v == last.version[1]
          IN  /\ last.raised = ""
              /\ \A j \in 1..Len(last.all_slides) :
                    IF j >= k /\ j < k + BatchSize
                    THEN \E i \in 1..Len(last.renders) :
                            /\ last.renders[i].slide_number = j
                            /\ last.renders[i].outcome # "raise"
                                  => (Returned_Image(j) /\ j \in DOMAIN fs[v].images)
                    ELSE (IF j < k THEN j ELSE j - (BatchSize - 1))
                            \in DOMAIN fs[0].images
                         => (Returned_Image(j) /\ j \in DOMAIN fs[v].images)

\* C12 witness: the render of the first of three slides raised and the two
\* later slides were rendered and returned
C12_Witness ==
    /\ last.op = "process"
    /\ Len(last.renders) = 3
    /\ last.renders[1].outcome = "raise"
    /\ last.images = <<2, 3>>
    /\ last.raised = ""
\* the slides/ directory the last operation rendered into
OutputImages ==
    IF last.op = "process" THEN fs[0].images ELSE fs[last.version[1]].images

\* the last operation reached its render loop
Rendered ==
    \/ last.op = "process" /\ last.presentation # None
    \/ Expanded

InList(list, n) == \E i \in 1..Len(list) : list[i] = n

\* what one render of slide n with the given outcome does to the slides/
\* directory (old before, new after) and to the returned list
RenderEffect(outcome, n, old, new, list, by) ==
    IF outcome = "raise"
    THEN /\ ~InList(list, n)
         /\ (n \in DOMAIN new) <=> (n \in DOMAIN old)
         /\ n \in DOMAIN old => new[n] = old[n]
    ELSE IF outcome = "nodata"
    THEN /\ InList(list, n)
         /\ n \in DOMAIN new
         /\ new[n] = (IF n \in DOMAIN old THEN old[n] ELSE EmptyFile)
    ELSE /\ InList(list, n)
         /\ n \in DOMAIN new
         /\ new[n] = Image(by, n)

C14_WritesOnlyNewVersion ==
    [][(last'.op = "expand" /\ expands' = expands + 1) =>
          /\ transcriptFile' = transcriptFile
          /\ \A n \in DOMAIN fs : n \in DOMAIN fs' /\ fs'[n] = fs[n]
          /\ last'.version # None =>
                /\ last'.version[1] \notin DOMAIN fs
                /\ last'.version[1] \in DOMAIN fs'
          /\ last'.version = None => fs' = fs]_vars

\* C14 witness: a second expansion copied an image of v0 into v2 while v0 and
\* the outline of v1 are in place
C14_Witness ==
    /\ Expanded
    /\ last.version = Some(2)
    /\ fs[1].outline # None
    /\ \E j \in DOMAIN fs[2].images : \E n \in DOMAIN fs[0].images :
          fs[2].images[j] = fs[0].images[n]
\* C16: after expanding slide k, the image of a new slide j < k is the prior
\* image of slide j, the image of a new slide j > k + 2 is the prior image of
\* slide j - 2, and the prior image of slide k is copied to no file.
C16_ReconcileCopies ==
    Expanded =>
        LET k == last.slide_number
            new == fs[last.version[1]].images
            old == fs[0].images
        IN  /\ \A j \in 1..Len(last.all_slides) :
                  /\ (j < k /\ j \in DOMAIN old) =>
                        (j \in DOMAIN new /\ new[j] = old[j])
                  /\ (j > k + 2 /\ (j - 2) \in DOMAIN old) =>
                        (j \in DOMAIN new /\ new[j] = old[j - 2])
            /\ (k \in DOMAIN old /\ old[k].kind = "image") =>
                  \A j \in DOMAIN new : new[j] # old[k]

\* C16 witness: slide 2 of three was expanded; new slide 1 is the prior image
\* 1 and new slide 5 the prior image 3
C16_Witness ==
    /\ Expanded
    /\ last.slide_number = 2
    /\ DOMAIN fs[0].images = 1..3
    /\ fs[last.version[1]].images[1] = fs[0].images[1]
    /\ fs[last.version[1]].images[5] = fs[0].images[3]
    /\ fs[0].images[2].kind = "image"

\* C17: the reconcile loop calls the image service once for each of the slides
\* k, k+1, k+2, in that order, and for no other slide.
C17_RenderCalls ==
    Expanded =>
        /\ Len(last.renders) = BatchSize
        /\ last.imageCalls = BatchSize
        /\ \A i \in 1..Len(last.renders) :
              last.renders[i].slide_number = last.slide_number + i - 1

\* C17 witness: an expansion with an untouched slide whose prior image is
\* missing made its three calls
C17_Witness ==
    /\ Expanded
    /\ Len(last.renders) = 3
    /\ \E j \in 1..Len(last.original_slides) :
          j # last.slide_number /\ j \notin DOMAIN fs[0].images

\* the prior image an untouched new slide j is copied from
PriorOf(j) == IF j < last.slide_number THEN j ELSE j - (BatchSize - 1)

\* new slide j lies outside the replacement range
Untouched(j) == j < last.slide_number \/ j >= last.slide_number + BatchSize

\* C18: an untouched slide whose prior image is missing gets no file in the new
\* version and no path in the returned list; the expansion raises nothing and
\* every other untouched slide whose prior image exists is copied.
C18_MissingPriorSkipped ==
    Expanded =>
        LET new == fs[last.version[1]].images
            old == fs[0].images
        IN  /\ last.raised = ""
            /\ \A j \in 1..Len(last.all_slides) :
                  Untouched(j) =>
                      IF PriorOf(j) \in DOMAIN old
                      THEN j \in DOMAIN new /\ Returned_Image(j)
                      ELSE j \notin DOMAIN new /\ ~Returned_Image(j)

\* C18 witness: the prior image of an untouched slide was missing and a later
\* untouched slide was copied
C18_Witness ==
    /\ Expanded
    /\ \E j \in 1..Len(last.all_slides) : \E m \in 1..Len(last.all_slides) :
          /\ j < m
          /\ Untouched(j) /\ Untouched(m)
          /\ PriorOf(j) \notin DOMAIN fs[0].images
          /\ m \in DOMAIN fs[last.version[1]].images
\* invocation j has selected its version directory
Selected(j) == jobs[j].pc \in {"mkdir", "expand", "done"}

\* C15: two invocations select the same version directory only when their
\* steps interleaved: invocations that run one after the other get distinct
\* directories.
C15_SameVersionOnlyInterleaved ==
    \A i \in 1..MaxJobs : \A j \in 1..MaxJobs :
        (i # j /\ Selected(i) /\ Selected(j)
         /\ jobs[i].version_num = jobs[j].version_num) => interleaved

\* C15 witness: two invocations whose steps interleaved selected the same
\* directory and both ran their expansion into it without raising; the
\* directory holds the outline and the renders of the one that wrote last
C15_Witness ==
    /\ interleaved
    /\ jobs[1].pc = "done" /\ jobs[2].pc = "done"
    /\ jobs[1].raised = "" /\ jobs[2].raised = ""
    /\ jobs[1].version_num = jobs[2].version_num
    /\ fs[jobs[1].version_num].outline # None
    /\ \E n \in DOMAIN fs[jobs[1].version_num].images :
          fs[jobs[1].version_num].images[n].by[1] = jobs[1].version_num

\* the sections of the transcript the context was selected from
ArgSections == SplitSections(args.transcript_content)

\* the sections long enough to be considered
Eligible == {i \in 1..Len(ArgSections) : Len(Strip(ArgSections[i])) >= MinSectionLen}

\* the number of the slide's terms that occur in the i-th section
Score(i) == Matches(search_terms(args.slide), ArgSections[i])

\* C21: the selected context is the eligible section with the highest count of
\* matching terms, the earliest on a tie; it is the leading excerpt of the
\* transcript exactly when no eligible section has a match.
C21_ContextSelection ==
    (args.fn = "find_transcript_content_for_slide" /\ ret # None) =>
        IF \E i \in Eligible : Score(i) > 0
        THEN \E i \in Eligible :
                /\ ret = Some(ArgSections[i])
                /\ \A j \in Eligible : Score(j) <= Score(i)
                /\ \A j \in Eligible : j < i => Score(j) < Score(i)
        ELSE ret = Some(Excerpt(args.transcript_content))

\* C21 witness: two different eligible sections tie on the highest count and
\* the first is returned
C21_Witness ==
    /\ args.fn = "find_transcript_content_for_slide"
    /\ ret # None
    /\ Len(ArgSections) = 2
    /\ Eligible = {1, 2}
    /\ Score(1) = Score(2) /\ Score(1) > 0
    /\ ArgSections[1] # ArgSections[2]
    /\ ret = Some(ArgSections[1])

\* C21 second witness: nothing matches a transcript longer than the excerpt
C21_WitnessExcerpt ==
    /\ ret # None
    /\ args.fn = "find_transcript_content_for_slide"
    /\ Len(args.transcript_content) > ExcerptLen
    /\ Len(ret[1]) = ExcerptLen

\* the scan has returned a version number
Scanned == args.fn = "expand_slide_workflow" /\ ret # None

HasSlideMarker(t) ==
    \E i \in 1..Len(t) :
        /\ StartsAt(t, i, "## Slide ")
        /\ DigitsEnd(t, i + 9) > i + 9
        /\ StartsAt(t, DigitsEnd(t, i + 9), ": ")

\* C23: an outline without any slide marker parses to the empty sequence and
\* the operation that parsed it raises nothing for that; every expansion
\* against such an outline, whatever the slide number, raises ValueError for
\* the missing target.
C23_NoMarkerEmpty ==
    /\ (last.op = "process" /\ last.presentation # None
        /\ ~HasSlideMarker(last.presentation[1]))
          => (last.all_slides = <<>> /\ last.raised = "" /\ last.images = <<>>)
    /\ (last.op = "expand" /\ last.version # None
        /\ ~HasSlideMarker(fs[0].outline[1]))
          => /\ last.original_slides = <<>>
             /\ last.raised = "ValueError"
             /\ last.stage = "target"
             /\ last.new_presentation = None

\* C23 witness: slide 1 of the outline "No slides here" was asked for and the
\* expansion raised ValueError for the target
C23_Witness ==
    /\ last.op = "expand"
    /\ last.slide_number = 1
    /\ last.version # None
    /\ ~HasSlideMarker(fs[0].outline[1])
    /\ last.original_slides = <<>>
    /\ last.raised = "ValueError"
    /\ last.stage = "target"

\* C24: every render of an expansion gets the same reference: the image of
\* slide k in the slides directory of v0 when that file exists, none when the
\* file or the directory is missing; with or without a reference the three
\* slides of the replacement range are rendered.
C24_ThemeReference ==
    (last.op = "expand" /\ last.new_presentation # None) =>
        LET k == last.slide_number
            there == fs[0].slides /\ k \in DOMAIN fs[0].images
        IN  /\ last.reference = (IF there THEN Some(k) ELSE None)
            /\ \A i \in 1..Len(last.renders) :
                  last.renders[i].reference = last.reference
            /\ last.stop = 0 =>
                  /\ Len(last.renders) = BatchSize
                  /\ \A i \in 1..BatchSize :
                        last.renders[i].slide_number = k + i - 1

\* C24 witness: v0 has no slides directory, the expansion passed no reference
\* and made its three renders
C24_Witness ==
    /\ last.op = "expand"
    /\ last.new_presentation # None
    /\ ~fs[0].slides
    /\ last.reference = None
    /\ Len(last.renders) = BatchSize

\* C24 second witness: the file of slide k is there and went with all renders
C24_WitnessPresent ==
    /\ last.op = "expand"
    /\ last.new_presentation # None
    /\ last.reference = Some(last.slide_number)
    /\ Len(last.renders) = BatchSize
    /\ \A i \in 1..BatchSize : last.renders[i].reference = Some(last.slide_number)

\* C24 third witness: the directory is there and the file of slide k is not
C24_WitnessNoFile ==
    /\ last.op = "expand"
    /\ last.new_presentation # None
    /\ fs[0].slides
    /\ last.reference = None
    /\ Len(last.renders) = BatchSize

\* C27 as claimed: process_input never hands an exception to its caller, and
\* the endpoint answers success.
C27_NeverPropagates ==
    last.op = "process" =>
        /\ ~last.propagated
        /\ process_input_endpoint(last).success

\* C27 as amended: what is raised in a stage of process_input is logged, the
\* later stages are not run, the call returns and the endpoint answers
\* success; only the constructor's ValueError for a missing API key, raised
\* before the try block, reaches the caller, and the endpoint then answers 500.
C27_StageFailuresSwallowed ==
    last.op = "process" =>
        /\ last.propagated <=> (last.stage = "construct")
        /\ process_input_endpoint(last).success <=> (last.stage # "construct")
        /\ last.stage = "construct" =>
              /\ last.raised = "ValueError"
              /\ process_input_endpoint(last).status_code = 500
              /\ last.convertCalls = 0 /\ last.outlineCalls = 0
              /\ last.imageCalls = 0
        /\ (last.stage = "convert" /\ last.raised # "") =>
              /\ last.markdown = None
              /\ last.outlineCalls = 0
              /\ last.imageCalls = 0
        /\ (last.stage = "outline" /\ last.raised # "") =>
              /\ last.presentation = None
              /\ last.imageCalls = 0

\* C27 witness: the outline call raised after the conversion was done; nothing
\* reached the caller, no image was asked for and the endpoint answers success
C27_Witness ==
    /\ last.op = "process"
    /\ last.stage = "outline"
    /\ last.raised = "Exception"
    /\ last.convertCalls = 1
    /\ last.imageCalls = 0
    /\ ~last.propagated
    /\ process_input_endpoint(last).success

\* C28: when a copy of the reconcile loop raises, the exception reaches the
\* caller of expand_slide, the new version directory holds the expanded
\* outline and the image of every slide the loop was done with (a copy of the
\* prior image, or the file a render left), and nothing of the later slides.
C28_OutlineBeforeImages ==
    (last.op = "expand" /\ last.stage = "reconcile") =>
        LET v == last.version[1]
            new == fs[v].images
            old == fs[0].images
        IN  /\ last.raised = "OSError"
            /\ last.propagated
            /\ last.images = <<>>
            /\ fs[v].outline = last.new_presentation
            /\ fs[v].outline # None
            /\ fs[v].slides
            /\ \A j \in 1..(last.stop - 1) :
                  IF Untouched(j)
                  THEN PriorOf(j) \in DOMAIN old
                          => (j \in DOMAIN new /\ new[j] = old[PriorOf(j)])
                  ELSE \E i \in 1..Len(last.renders) :
                          /\ last.renders[i].slide_number = j
                          /\ last.renders[i].outcome # "raise" => j \in DOMAIN new
            /\ \A j \in DOMAIN new : j < last.stop

\* C28 witness: the copy for the slide after the replacement range raised when
\* the three renders had left their files
C28_Witness ==
    /\ last.op = "expand"
    /\ last.stage = "reconcile"
    /\ last.propagated
    /\ last.stop = last.slide_number + BatchSize
    /\ fs[last.version[1]].outline # None
    /\ Len(last.renders) = BatchSize
    /\ \A i \in 1..BatchSize :
          (last.slide_number + i - 1) \in DOMAIN fs[last.version[1]].images

\* the number of slides of the outline in the version directory v<n>
OutlineSize(n) == Len(parse_presentation_skeleton(fs[n].outline[1]))

\* C25: every expansion reads the outline of v0, and every version directory
\* v<n>, n >= 1, holds an outline of N0 + 2 slides, N0 being the number of
\* slides of the v0 outline, however many expansions ran before.
C25_NoComposition ==
    /\ (last.op = "expand" /\ last.version # None) =>
          last.original_slides = parse_presentation_skeleton(fs[0].outline[1])
    /\ \A n \in DOMAIN fs :
          n >= 1 => /\ fs[n].outline # None
                    /\ OutlineSize(n) = OutlineSize(0) + 2

\* the same for the version directories that hold an outline
C25_NoCompositionWhereWritten ==
    /\ (last.op = "expand" /\ last.version # None) =>
          last.original_slides = parse_presentation_skeleton(fs[0].outline[1])
    /\ \A n \in DOMAIN fs :
          (n >= 1 /\ fs[n].outline # None) => OutlineSize(n) = OutlineSize(0) + 2

\* two expansions in sequence, the second as large as the first
C25_TwoExpansions ==
    /\ 2 \in DOMAIN fs
    /\ fs[1].outline # None
    /\ fs[2].outline # None
    /\ OutlineSize(2) = OutlineSize(1)

\* C26: the paths an expansion returns are in strictly ascending order of
\* slide number, so without duplicates; there are at most N + 2 of them, N
\* being the number of slides of the original outline; each names a file of
\* the slides directory of the new version.
C26_ReturnedPaths ==
    (Expanded /\ last.raised = "") =>
        /\ \A i \in 1..Len(last.images) : \A j \in 1..Len(last.images) :
              i < j => last.images[i] < last.images[j]
        /\ Len(last.images) <= Len(last.original_slides) + 2
        /\ fs[last.version[1]].slides
        /\ \A i \in 1..Len(last.images) :
              last.images[i] \in DOMAIN fs[last.version[1]].images

\* C26 witness: an expansion returned fewer paths than the outline has slides,
\* one render having raised, and at least three
C26_Witness ==
    /\ Expanded
    /\ last.raised = ""
    /\ Len(last.images) >= 3
    /\ Len(last.images) < Len(last.all_slides)
    /\ \E i \in 1..Len(last.renders) : last.renders[i].outcome = "raise"

\* the bullets of the plain bullet lines among body[n..], in order
RECURSIVE PlainFrom(_, _)
PlainFrom(body, n) ==
    IF n > Len(body) THEN <<>>
    ELSE (IF PlainBullet(body[n]) THEN <<Strip(From(body[n], 2))>> ELSE <<>>)
         \o PlainFrom(body, n + 1)

\* the indexes of the recognized hint lines of a body
HintLines(body) == {n \in 1..Len(body) : StartsWith(body[n], HintMarker)}

\* C29: a hint line is recognized at any place of the body the parser matched
\* for a slide; the last hint line of the body gives the visual hint; no hint
\* line is among the bullets, and the bullets are the other bullet lines in
\* the order of the text.
C29_HintAnywhere ==
    parsed # None =>
        \A i \in 1..Len(parsed[1]) :
            LET body == BodyLines(i)
                hints == HintLines(body)
                slide == parsed[1][i]
            IN  /\ slide.bullet_points = PlainFrom(body, 1)
                /\ hints = {} => slide.visual_suggestion = None
                /\ hints # {} =>
                      LET n == CHOOSE m \in hints : \A k \in hints : k <= m
                      IN  slide.visual_suggestion
                             = Some(Strip(From(body[n], Len(HintMarker) + 1)))

\* C29 witness: two hint lines, and the second is the visual hint
C29_Witness ==
    /\ parsed # None
    /\ text = "## Slide 1: A\n- **Visual suggestion:** v\n- **Visual suggestion:** w"
    /\ parsed[1][1].visual_suggestion = Some("w")
    /\ parsed[1][1].bullet_points = <<>>

\* C29 second witness: a hint line before a bullet is the hint, not a bullet
C29_WitnessNotFinal ==
    /\ parsed # None
    /\ text = "## Slide 1: A\n- **Visual suggestion:** v\n- b1"
    /\ parsed[1][1].visual_suggestion = Some("v")
    /\ parsed[1][1].bullet_points = <<"b1">>
====
